---- MODULE Spec2Model ----
(***************************************************************************)
(* Model of mrgiba/stock-utils: the multi-lot sale pipeline of             *)
(* extract_morgan.py (create_csv: lot reconciliation, proportional         *)
(* allocation, profit), the exchange-rate resolver of exchange_rates.py    *)
(* (get_exchange_rate_from_bcb, get_previous_business_day_rate), the       *)
(* batch driver (main, process_pdf, the extraction call of llm.py with its *)
(* retry decorator) and the CSV converter of convert_to_bastter.py         *)
(* (convert_to_float, process_csv_to_bastter_format).                      *)
(*                                                                         *)
(* Python floats are binary floating-point numbers: every operation        *)
(* returns the exact result rounded to the nearest representable value,    *)
(* ties to even.  The model keeps that arithmetic, with a significand of   *)
(* MantBits bits (binary64 has 53).  A float is a pair <<m, e>> standing   *)
(* for m * 2^e, m odd (or <<0, 0>>), so equal values are equal pairs.      *)
(***************************************************************************)
EXTENDS Integers, Sequences, FiniteSets, TLC

VARIABLES
    pc,                 \* position of the program
    extracted,          \* the record as extracted, before create_csv touches it
    transaction_data,   \* the record create_csv works on (lots mutated in place)
    exchange_rates,     \* <<transaction_rate, acquisition_rates>>
    warned,             \* the "AVISO" mismatch warning was printed
    i,                  \* loop index of create_csv's lot loop (1-based)
    distributed,        \* the four running sums distributed_*
    lot_values,         \* per lot, the loop's local values (unformatted)
    csv_data,           \* the rows handed to the CSV writer (formatted)
    api,                \* the days the PTAX service has a quotation for
    purpose,            \* which rate get_exchange_rates is after: 0 the sale's, j lot j's
    date_str,           \* the date a rate is asked for
    operation_type,     \* "venda" or "compra", as passed to the resolver
    date_obj,           \* the date the backward day-walk has reached
    attempts,           \* passes of the day-walk's loop made so far
    lookups,            \* the requests sent for the current date, in order
    bcb_result,         \* what get_exchange_rate_from_bcb returned
    transaction_rate,   \* get_exchange_rates' local: the sale-date rate
    acquisition_rates,  \* get_exchange_rates' local: the lots' rates so far
    previous,           \* what the earlier runs of create_csv on the record left
    pdf_files,          \* main: how many PDF files the command line names
    file_index,         \* main: the i of the loop over pdf_files (0 before it)
    successful,         \* main: PDFs for which process_pdf returned True
    failed,             \* main: PDFs for which process_pdf returned False
    attempt_number,     \* retrying: the attempt of __invoke_llm under way
    llm_errors,         \* what the attempts of the current call raised, in order
    value,              \* convert_to_float: the argument
    returned,           \* convert_to_float: <<the float returned>>, <<>> if none
    raised,             \* convert_to_float: the exception that left it, or None
    lines,              \* process_csv_to_bastter_format: the lines after the header
    line_index,         \* ... the line the loop is at (1-based)
    all_data,           \* ... the rows collected so far
    xlsx                \* ... the rows written to the XLSX file

csvVars == <<transaction_data, warned, i, distributed, lot_values, csv_data>>

rateVars == <<api, purpose, date_str, operation_type, date_obj, attempts, lookups,
              bcb_result, transaction_rate, acquisition_rates>>

batchVars == <<pdf_files, file_index, successful, failed>>

llmVars == <<attempt_number, llm_errors>>

bastterVars == <<value, returned, raised, lines, line_index, all_data, xlsx>>

auxVars == <<previous, batchVars, llmVars, bastterVars>>

vars == <<pc, extracted, exchange_rates, csvVars, rateVars, auxVars>>

None == "None"

----------------------------------------------------------------------------
(* Bounds of the model *)

MantBits == 11          \* significand width of the modelled floats
MaxQuantity == 3        \* reported sale quantity ranges over 0..MaxQuantity
MaxLots == 3            \* number of acquisition lots ranges over 1..MaxLots
MaxLotQuantity == 2     \* raw lot quantity ranges over 0..MaxLotQuantity
MaxPdfs == 2            \* the command line names 1..MaxPdfs PDF files
MaxLlmAttempts == 3     \* attempts of one extraction call that are followed
MaxTextLen == 4         \* length of the texts given to convert_to_float
MaxLines == 2           \* lines of a ticker's section after the header

----------------------------------------------------------------------------
(* Python float arithmetic *)

AbsI(n) == IF n < 0 THEN -n ELSE n

SignI(n) == IF n < 0 THEN -1 ELSE 1

MinI(a, b) == IF a < b THEN a ELSE b

RECURSIVE BitLen(_)
BitLen(a) == IF a < 2 THEN a ELSE 1 + BitLen(a \div 2)

\* n / d rounded to the nearest integer, ties to the even one (n >= 0, d > 0)
DivHalfEven(n, d) ==
    LET q == n \div d
        r == n % d
    IN  IF 2 * r > d \/ (2 * r = d /\ q % 2 = 1) THEN q + 1 ELSE q

RECURSIVE Normal(_, _)
Normal(m, e) ==
    IF m = 0 THEN <<0, 0>>
    ELSE IF m % 2 = 0 THEN Normal(m \div 2, e + 1)
    ELSE <<m, e>>

\* the k with 2^(MantBits-1) <= n / (d * 2^k) < 2^MantBits  (n > 0, d > 0)
RECURSIVE Exponent(_, _, _)
Exponent(n, d, k) ==
    LET num == IF k < 0 THEN n * 2^(-k) ELSE n
        den == IF k > 0 THEN d * 2^k ELSE d
    IN  IF num < 2^(MantBits - 1) * den THEN Exponent(n, d, k - 1)
        ELSE IF num >= 2^MantBits * den THEN Exponent(n, d, k + 1)
        ELSE k

\* s * (n / d) * 2^e rounded to a float: round to nearest, ties to even
RoundRatio(s, n, d, e) ==
    IF n = 0 THEN <<0, 0>>
    ELSE LET k == Exponent(n, d, BitLen(n) - BitLen(d) - MantBits)
             num == IF k < 0 THEN n * 2^(-k) ELSE n
             den == IF k > 0 THEN d * 2^k ELSE d
         IN  Normal(s * DivHalfEven(num, den), k + e)

\* float(n) of an int
FFromInt(n) == RoundRatio(SignI(n), AbsI(n), 1, 0)

\* a / b of two ints (true division), b # 0
FDivInt(a, b) == RoundRatio(SignI(a) * SignI(b), AbsI(a), AbsI(b), 0)

\* the float a JSON number with two decimals parses to (c hundredths)
FFromCents(c) == RoundRatio(SignI(c), AbsI(c), 100, 0)

FMul(x, y) == RoundRatio(SignI(x[1]) * SignI(y[1]), AbsI(x[1] * y[1]), 1, x[2] + y[2])

FAdd(x, y) ==
    LET e == MinI(x[2], y[2])
        s == x[1] * 2^(x[2] - e) + y[1] * 2^(y[2] - e)
    IN  RoundRatio(SignI(s), AbsI(s), 1, e)

FNeg(x) == <<-x[1], x[2]>>

FSub(x, y) == FAdd(x, FNeg(y))

\* round(x) of a float: an int, ties to even
FRound(x) ==
    IF x[2] >= 0 THEN x[1] * 2^(x[2])
    ELSE SignI(x[1]) * DivHalfEven(AbsI(x[1]), 2^(-x[2]))

\* f"{x:.2f}": the value in hundredths, correctly rounded
FormatCents(x) ==
    IF x[2] >= 0 THEN x[1] * 100 * 2^(x[2])
    ELSE SignI(x[1]) * DivHalfEven(AbsI(x[1]) * 100, 2^(-x[2]))

\* f"{x:.4f}": the value in ten-thousandths, correctly rounded
FormatE4(x) ==
    IF x[2] >= 0 THEN x[1] * 10000 * 2^(x[2])
    ELSE SignI(x[1]) * DivHalfEven(AbsI(x[1]) * 10000, 2^(-x[2]))

FZero == <<0, 0>>

----------------------------------------------------------------------------
(* The records create_csv is called with *)

TotalValueCents == {100000, 322}    \* total_value: 1000.00, 3.22
CommissionCents == {0, 174}         \* commission: 0.00, 1.74
SupplementalFeeCents == {5}         \* supplemental_fee: 0.05

\* the price paid per share on a day, in cents: 4.49, 6.99, 9.49, ...
CostBasisCents(day) == 199 + 250 * day

\* PTAX quotations of a day: the bid (compra) is below the ask (venda)
cotacaoCompra(day) == FFromCents(500 + 4 * day)
cotacaoVenda(day) == FFromCents(502 + 4 * day)

Lot(q, d) ==
    [quantity |-> q, cost_basis_per_share |-> FFromCents(CostBasisCents(d)),
     acquisition_date |-> d]

\* the fields of the extracted JSON object that create_csv computes with
\* (ticker and share_value are only copied into the rows); dates are day
\* numbers, amounts the floats their two-decimal literals parse to
Record(q, tv, c, f, d, lots) ==
    [quantity |-> q, total_value |-> FFromCents(tv), commission |-> FFromCents(c),
     supplemental_fee |-> FFromCents(f), transaction_date |-> d,
     acquisition_lots |-> lots]

\* lot lists of n lots, acquired on the days 1..n, the oldest lot first
LotLists(n) ==
    { [j \in 1..n |-> Lot(qs[j], j)] : qs \in [1..n -> 0..MaxLotQuantity] }

SmallRecords ==
    { Record(q, tv, c, f, MaxLots + 1, lots) :
        q \in 0..MaxQuantity, tv \in TotalValueCents, c \in CommissionCents,
        f \in SupplementalFeeCents,
        lots \in UNION { LotLists(n) : n \in 1..MaxLots } }

\* the sales the specification works through by hand, and a sale whose
\* scaled lot quantities are ties (7 * 29 / 14 = 14.5)
ScenarioRecords ==
    { Record(100, 100000, 0, 5, 3, <<Lot(60, 1), Lot(50, 2)>>),
      Record(100, 100000, 0, 5, 4, <<Lot(30, 1), Lot(30, 2), Lot(40, 3)>>),
      Record(29, 100000, 174, 5, 3, <<Lot(7, 1), Lot(7, 2)>>) }

\* a sale whose first three lots are each rounded up by the scaling, which
\* leaves the last lot a quantity below zero
SkewedRecords ==
    { Record(2, 100000, 174, 5, 5, <<Lot(2, 1), Lot(2, 2), Lot(2, 3), Lot(1, 4)>>) }

Records == SmallRecords \cup ScenarioRecords \cup SkewedRecords

\* what get_exchange_rates returns for a record when every date has a quotation
RatesOf(td) ==
    <<cotacaoCompra(td.transaction_date),
      [j \in 1..Len(td.acquisition_lots) |->
          cotacaoVenda(td.acquisition_lots[j].acquisition_date)]>>

----------------------------------------------------------------------------
(* create_csv *)

RECURSIVE SumQuantity(_)
SumQuantity(lots) ==
    IF lots = <<>> THEN 0
    ELSE lots[1].quantity + SumQuantity(Tail(lots))

\* the supplemental fee left out of the costs
Costs_CommissionOnly(td) == td.commission

Costs(td) == FAdd(td.commission, td.supplemental_fee)

TotalProceeds(td) == td.total_value

NetProceeds(td) == FSub(TotalProceeds(td), Costs(td))

NetProceedsBrl(td, rates) == FMul(NetProceeds(td), rates[1])

\* a test for a surplus only
QuantityMismatch_SurplusOnly(total_lot_quantity, quantity) == total_lot_quantity > quantity

\* the test of line 174: the lots do not add up to the quantity sold
QuantityMismatch(total_lot_quantity, quantity) == total_lot_quantity # quantity

\* int(x) of a float: truncation towards zero
FTrunc(x) ==
    IF x[2] >= 0 THEN x[1] * 2^(x[2])
    ELSE SignI(x[1]) * (AbsI(x[1]) \div 2^(-x[2]))

\* the scaled quantities truncated instead of rounded
ScaleLots_Truncated(quantity, lots) ==
    LET adjustment_factor == FDivInt(quantity, SumQuantity(lots))
    IN  [j \in 1..Len(lots) |->
            [lots[j] EXCEPT !.quantity =
                FTrunc(FMul(FFromInt(lots[j].quantity), adjustment_factor))]]

\* the scaled lots handed back newest first
ScaleLots_Reversed(quantity, lots) ==
    LET adjustment_factor == FDivInt(quantity, SumQuantity(lots))
    IN  [j \in 1..Len(lots) |->
            [lots[Len(lots) + 1 - j] EXCEPT !.quantity =
                FRound(FMul(FFromInt(lots[Len(lots) + 1 - j].quantity),
                            adjustment_factor))]]

\* lines 179-181: every lot scaled by quantity / total and rounded
ScaleLots(quantity, lots) ==
    LET adjustment_factor == FDivInt(quantity, SumQuantity(lots))
    IN  [j \in 1..Len(lots) |->
            [lots[j] EXCEPT !.quantity =
                FRound(FMul(FFromInt(lots[j].quantity), adjustment_factor))]]

\* the last lot left as the rounding made it
AbsorbDifference_Skipped(quantity, lots) == lots

\* lines 184-187: the last lot takes the difference left by the rounding
AbsorbDifference(quantity, lots) ==
    LET adjusted_total == SumQuantity(lots)
    IN  IF adjusted_total # quantity
        THEN [lots EXCEPT ![Len(lots)].quantity = @ + (quantity - adjusted_total)]
        ELSE lots

\* lines 173-187, for lots whose total is not zero
ReconcileLots(quantity, lots) ==
    IF QuantityMismatch(SumQuantity(lots), quantity)
    THEN AbsorbDifference(quantity, ScaleLots(quantity, lots))
    ELSE lots

\* the remainder taken the wrong way round (distributed - aggregate)
LotShare_Reversed(aggregate, distributed_sum, lot_proportion, is_last) ==
    IF is_last THEN FSub(distributed_sum, aggregate)
    ELSE FMul(aggregate, lot_proportion)

\* lines 204-213 for one aggregate: the last lot takes what is left of it
LotShare(aggregate, distributed_sum, lot_proportion, is_last) ==
    IF is_last THEN FSub(aggregate, distributed_sum)
    ELSE FMul(aggregate, lot_proportion)

\* the running sum overwritten (=) instead of added to (+=)
Accumulate_Overwritten(distributed_sum, share, is_last) ==
    IF is_last THEN distributed_sum ELSE share

\* lines 216-219 for one aggregate
Accumulate(distributed_sum, share, is_last) ==
    IF is_last THEN distributed_sum ELSE FAdd(distributed_sum, share)

\* the rate of the first lot used for every lot
AcquisitionRate_First(rate_list, j) == rate_list[1]

\* lines 228-233: the rate of lot j
AcquisitionRate(rate_list, j) ==
    rate_list[MinI(j, Len(rate_list))]

\* lines 198-239: the values of lot j, given the running sums
LotValues(td, rates, dist, j) ==
    LET lot == td.acquisition_lots[j]
        is_last == (j = Len(td.acquisition_lots))
        lot_proportion == FDivInt(lot.quantity, td.quantity)
        lot_net_proceeds ==
            LotShare(NetProceeds(td), dist.net_proceeds, lot_proportion, is_last)
        lot_net_proceeds_brl ==
            LotShare(NetProceedsBrl(td, rates), dist.net_proceeds_brl, lot_proportion, is_last)
        acquisition_cost_total == FMul(FFromInt(lot.quantity), lot.cost_basis_per_share)
        acquisition_rate == AcquisitionRate(rates[2], j)
        acquisition_cost_brl == FMul(acquisition_cost_total, acquisition_rate)
    IN  [quantity |-> lot.quantity,
         lot_costs |-> LotShare(Costs(td), dist.costs, lot_proportion, is_last),
         lot_proceeds |-> LotShare(TotalProceeds(td), dist.proceeds, lot_proportion, is_last),
         lot_net_proceeds |-> lot_net_proceeds,
         lot_net_proceeds_brl |-> lot_net_proceeds_brl,
         acquisition_cost_total |-> acquisition_cost_total,
         acquisition_rate |-> acquisition_rate,
         acquisition_cost_brl |-> acquisition_cost_brl,
         lot_profit_usd |-> FSub(lot_net_proceeds, acquisition_cost_total),
         lot_profit_brl |-> FSub(lot_net_proceeds_brl, acquisition_cost_brl)]

\* lines 242-261: the row of a lot, every amount formatted
CsvRow(td, rates, v, j) ==
    [Data |-> td.transaction_date,
     Quantidade |-> v.quantity,
     Total |-> FormatCents(v.lot_proceeds),
     Custos |-> FormatCents(v.lot_costs),
     OperacaoCustos |-> FormatCents(v.lot_net_proceeds),
     OperacaoCustosBrl |-> FormatCents(v.lot_net_proceeds_brl),
     CambioCompra |-> FormatE4(rates[1]),
     DataAquisicao |-> td.acquisition_lots[j].acquisition_date,
     CustoAquisicao |-> FormatCents(td.acquisition_lots[j].cost_basis_per_share),
     CambioAquisicao |-> FormatE4(v.acquisition_rate),
     CustoAquisicaoTotal |-> FormatCents(v.acquisition_cost_total),
     CustoAquisicaoTotalBrl |-> FormatCents(v.acquisition_cost_brl),
     LucroDolar |-> FormatCents(v.lot_profit_usd),
     LucroReais |-> FormatCents(v.lot_profit_brl)]

NoDistributed ==
    [costs |-> FZero, proceeds |-> FZero, net_proceeds |-> FZero,
     net_proceeds_brl |-> FZero]

\* create_csv, lines 158-196: the aggregates, the reconciliation of the lot
\* quantities and the start of the lot loop.  A lot total of zero that
\* differs from the quantity divides by zero at line 179.
CreateCsvReconcile ==
    /\ pc = "create_csv"
    /\ LET lots == transaction_data.acquisition_lots
           quantity == transaction_data.quantity
           total_lot_quantity == SumQuantity(lots)
       IN  /\ warned' = QuantityMismatch(total_lot_quantity, quantity)
           /\ IF QuantityMismatch(total_lot_quantity, quantity) /\ total_lot_quantity = 0
              THEN /\ pc' = "raised"
                   /\ UNCHANGED transaction_data
              ELSE /\ pc' = "allocate"
                   /\ transaction_data' =
                        [transaction_data EXCEPT
                            !.acquisition_lots = ReconcileLots(quantity, lots)]
    /\ i' = 1
    /\ distributed' = NoDistributed
    /\ lot_values' = <<>>
    /\ csv_data' = <<>>
    /\ UNCHANGED <<auxVars, extracted, exchange_rates, rateVars>>

\* create_csv, lines 198-263: one pass of the lot loop.  A quantity of zero
\* divides by zero at line 200.
AllocateLot ==
    /\ pc = "allocate"
    /\ i <= Len(transaction_data.acquisition_lots)
    /\ IF transaction_data.quantity = 0
       THEN /\ pc' = "raised"
            /\ UNCHANGED <<i, distributed, lot_values, csv_data>>
       ELSE LET v == LotValues(transaction_data, exchange_rates, distributed, i)
                is_last == (i = Len(transaction_data.acquisition_lots))
            IN  /\ distributed' =
                     [costs |-> Accumulate(distributed.costs, v.lot_costs, is_last),
                      proceeds |-> Accumulate(distributed.proceeds, v.lot_proceeds, is_last),
                      net_proceeds |->
                          Accumulate(distributed.net_proceeds, v.lot_net_proceeds, is_last),
                      net_proceeds_brl |->
                          Accumulate(distributed.net_proceeds_brl, v.lot_net_proceeds_brl,
                                     is_last)]
                /\ lot_values' = Append(lot_values, v)
                /\ csv_data' =
                     Append(csv_data, CsvRow(transaction_data, exchange_rates, v, i))
                /\ i' = i + 1
                /\ pc' = pc
    /\ UNCHANGED <<auxVars, extracted, transaction_data, exchange_rates, warned, rateVars>>

\* create_csv, lines 265-280: the rows are written and the path returned
WriteCsv ==
    /\ pc = "allocate"
    /\ i > Len(transaction_data.acquisition_lots)
    /\ pc' = "returned"
    /\ UNCHANGED <<auxVars, extracted, exchange_rates, csvVars, rateVars>>

----------------------------------------------------------------------------
(* create_csv called on an extracted record and its resolved rates *)

CsvIdle ==
    /\ warned = FALSE
    /\ i = 1
    /\ distributed = NoDistributed
    /\ lot_values = <<>>
    /\ csv_data = <<>>

RatesIdle ==
    /\ purpose = 0
    /\ date_str = 0
    /\ operation_type = "venda"
    /\ date_obj = 0
    /\ attempts = 0
    /\ lookups = <<>>
    /\ bcb_result = None
    /\ transaction_rate = None
    /\ acquisition_rates = <<>>

LlmIdle ==
    /\ attempt_number = 0
    /\ llm_errors = <<>>

BastterIdle ==
    /\ value = [type |-> "NoneType", text |-> <<>>, int |-> <<0, 0>>]
    /\ returned = <<>>
    /\ raised = None
    /\ lines = <<>>
    /\ line_index = 1
    /\ all_data = <<>>
    /\ xlsx = <<>>

AuxIdle ==
    /\ previous = <<>>
    /\ pdf_files = 1
    /\ file_index = 1
    /\ successful = 0
    /\ failed = 0
    /\ LlmIdle
    /\ BastterIdle

InitCsv ==
    /\ pc = "create_csv"
    /\ extracted \in Records
    /\ transaction_data = extracted
    /\ exchange_rates = RatesOf(extracted)
    /\ api = {}
    /\ CsvIdle
    /\ RatesIdle
    /\ AuxIdle

NextCsv == CreateCsvReconcile \/ AllocateLot \/ WriteCsv

SpecCsv == InitCsv /\ [][NextCsv]_vars

\* create_csv called once more with the record it has just worked on (the
\* dict whose lots it reconciled in place) and the same rates
CreateCsvAgain ==
    /\ pc = "returned"
    /\ previous = <<>>
    /\ previous' = <<[acquisition_lots |-> transaction_data.acquisition_lots,
                      lot_values |-> lot_values,
                      csv_data |-> csv_data]>>
    /\ pc' = "create_csv"
    /\ UNCHANGED <<extracted, exchange_rates, csvVars, rateVars, batchVars, llmVars,
                   bastterVars>>

NextCsvAgain == NextCsv \/ CreateCsvAgain

SpecCsvAgain == InitCsv /\ [][NextCsvAgain]_vars

----------------------------------------------------------------------------
(* exchange_rates.py: the rate resolver, and get_exchange_rates calling it *)

max_attempts == 5

LastDay == MaxLots + 1

\* the days of the PTAX series; a date before day 0 has no quotation
Days == 0..LastDay

\* what the user types when asked for a rate
ManualRates == {FFromCents(490)}

\* the answers of one GET: the service's answer, or a RequestException
Answers(day) == {IF day \in api THEN "data" ELSE "nodata", "transport"}

\* lines 51-56 and 100-103: the field of the quotation that is read
RateField(op) == IF op = "venda" THEN "cotacaoCompra" ELSE "cotacaoVenda"

Quotation(field, day) ==
    IF field = "cotacaoCompra" THEN cotacaoCompra(day) ELSE cotacaoVenda(day)

\* the operation type the day-walk is called with, when it is not passed on
WalkOperationType_Default(op) == "venda"

\* line 62: the operation type the day-walk is called with
WalkOperationType(op) == op

\* the loop test off by one
WalkContinues_OneMore(n) == n <= max_attempts

\* line 82: the loop of the day-walk goes on
WalkContinues(n) == n < max_attempts

Lookup(day, field, answer) == [date |-> day, field |-> field, answer |-> answer]

\* get_exchange_rates, lines 133-143: the rate of the sale date is asked first
GetExchangeRatesSale ==
    /\ pc = "get_exchange_rates"
    /\ purpose' = 0
    /\ date_str' = extracted.transaction_date
    /\ operation_type' = "venda"
    /\ lookups' = <<>>
    /\ pc' = "bcb"
    /\ UNCHANGED <<auxVars, extracted, exchange_rates, csvVars, api, date_obj, attempts,
                   bcb_result, transaction_rate, acquisition_rates>>

\* get_exchange_rate_from_bcb, lines 41-58: the date has a quotation
BcbData ==
    /\ pc = "bcb"
    /\ "data" \in Answers(date_str)
    /\ lookups' = Append(lookups, Lookup(date_str, RateField(operation_type), "data"))
    /\ bcb_result' = Quotation(RateField(operation_type), date_str)
    /\ pc' = "bcb_returned"
    /\ UNCHANGED <<auxVars, extracted, exchange_rates, csvVars, api, purpose, date_str,
                   operation_type, date_obj, attempts, transaction_rate,
                   acquisition_rates>>

\* get_exchange_rate_from_bcb, lines 59-62, and get_previous_business_day_rate,
\* line 80: no quotation for the date, the day-walk starts from it
BcbNoData ==
    /\ pc = "bcb"
    /\ "nodata" \in Answers(date_str)
    /\ lookups' = Append(lookups, Lookup(date_str, None, "nodata"))
    /\ operation_type' = WalkOperationType(operation_type)
    /\ date_obj' = date_str
    /\ attempts' = 0
    /\ pc' = "previous_day"
    /\ UNCHANGED <<auxVars, extracted, exchange_rates, csvVars, api, purpose, date_str,
                   bcb_result, transaction_rate, acquisition_rates>>

\* get_exchange_rate_from_bcb, lines 64-66: the request failed, None is returned
BcbTransportError ==
    /\ pc = "bcb"
    /\ lookups' = Append(lookups, Lookup(date_str, None, "transport"))
    /\ bcb_result' = None
    /\ pc' = "bcb_returned"
    /\ UNCHANGED <<auxVars, extracted, exchange_rates, csvVars, api, purpose, date_str,
                   operation_type, date_obj, attempts, transaction_rate,
                   acquisition_rates>>

\* get_previous_business_day_rate, lines 82-108: one pass of the loop.  The
\* date goes back one day and is asked for; a quotation is returned, no
\* quotation and a failed request (line 108: continue) both go on to the
\* next pass.
PreviousDayLookup ==
    /\ pc = "previous_day"
    /\ WalkContinues(attempts)
    /\ date_obj' = date_obj - 1
    /\ attempts' = attempts + 1
    /\ \E answer \in Answers(date_obj - 1) :
          IF answer = "data"
          THEN /\ lookups' = Append(lookups,
                                Lookup(date_obj - 1, RateField(operation_type), "data"))
               /\ bcb_result' = Quotation(RateField(operation_type), date_obj - 1)
               /\ pc' = "bcb_returned"
          ELSE /\ lookups' = Append(lookups, Lookup(date_obj - 1, None, answer))
               /\ UNCHANGED <<bcb_result, pc>>
    /\ UNCHANGED <<auxVars, extracted, exchange_rates, csvVars, api, purpose, date_str,
                   operation_type, transaction_rate, acquisition_rates>>

\* get_previous_business_day_rate, lines 110-111: the loop is over, None
PreviousDayExhausted ==
    /\ pc = "previous_day"
    /\ ~WalkContinues(attempts)
    /\ bcb_result' = None
    /\ pc' = "bcb_returned"
    /\ UNCHANGED <<auxVars, extracted, exchange_rates, csvVars, api, purpose, date_str,
                   operation_type, date_obj, attempts, lookups, transaction_rate,
                   acquisition_rates>>

\* get_exchange_rates_interactive, lines 165-169 and 174-178: the rate found,
\* or the rate the user types when none was found
RateOrManual(result) == IF result # None THEN {result} ELSE ManualRates

\* get_exchange_rates_interactive returns to get_exchange_rates, lines 143-150:
\* the rate is kept, and the next acquisition date is asked with "compra"
RateObtained ==
    /\ pc = "bcb_returned"
    /\ \E rate \in RateOrManual(bcb_result) :
          IF purpose = 0
          THEN /\ transaction_rate' = rate
               /\ UNCHANGED acquisition_rates
          ELSE /\ acquisition_rates' = Append(acquisition_rates, rate)
               /\ UNCHANGED transaction_rate
    /\ IF purpose < Len(extracted.acquisition_lots)
       THEN /\ purpose' = purpose + 1
            /\ date_str' = extracted.acquisition_lots[purpose + 1].acquisition_date
            /\ operation_type' = "compra"
            /\ lookups' = <<>>
            /\ pc' = "bcb"
       ELSE /\ pc' = "rates_collected"
            /\ UNCHANGED <<purpose, date_str, operation_type, lookups>>
    /\ UNCHANGED <<auxVars, extracted, exchange_rates, csvVars, api, date_obj, attempts,
                   bcb_result>>

\* get_exchange_rates, line 153, and process_pdf, line 403
GetExchangeRatesReturn ==
    /\ pc = "rates_collected"
    /\ exchange_rates' = <<transaction_rate, acquisition_rates>>
    /\ pc' = "rates_returned"
    /\ UNCHANGED <<auxVars, extracted, csvVars, rateVars>>

\* the records whose rates are resolved: n lots of one share each
RateRecords ==
    { Record(n, 100000, 0, 5, LastDay, [j \in 1..n |-> Lot(1, j)]) : n \in 1..MaxLots }

InitRates ==
    /\ pc = "get_exchange_rates"
    /\ extracted \in RateRecords
    /\ transaction_data = extracted
    /\ exchange_rates = None
    /\ api \in SUBSET Days
    /\ CsvIdle
    /\ RatesIdle
    /\ AuxIdle

NextRates ==
    \/ GetExchangeRatesSale
    \/ BcbData
    \/ BcbNoData
    \/ BcbTransportError
    \/ PreviousDayLookup
    \/ PreviousDayExhausted
    \/ RateObtained
    \/ GetExchangeRatesReturn

SpecRates == InitRates /\ [][NextRates]_vars

----------------------------------------------------------------------------
(* llm.py and extract_morgan.py: the extraction call, process_pdf and main *)

\* what bedrock_runtime.converse can raise: three ClientError codes and an
\* exception that is not a ClientError
ErrorCodes ==
    {"ThrottlingException", "ModelTimeoutException", "AccessDeniedException",
     "ReadTimeoutError"}

\* llm.py, lines 107-123: what __invoke_llm raises for an error of converse
RaisedFor(code) ==
    IF code \in {"ThrottlingException", "ModelTimeoutException"}
    THEN "BedrockRetryableError"
    ELSE code

\* every exception retried
retry_on_exception_Any(ex) == TRUE

\* llm.py, line 50: the exceptions the retry decorator retries
retry_on_exception(ex) == ex = "BedrockRetryableError"

\* the sales a PDF can be extracted to: the lots acquired on different days,
\* one sale whose lots do not add up to the quantity sold, and one whose
\* only lot is empty (create_csv divides by zero)
PipelineRecords ==
    RateRecords
        \cup { Record(3, 100000, 174, 5, LastDay, <<Lot(2, 1), Lot(2, 2)>>),
               Record(1, 100000, 174, 5, LastDay, <<Lot(0, 1)>>) }

\* the quotations the service has: all, all but the sale day's and day 2's,
\* none
PipelineApis == { Days, Days \ {2, LastDay}, {} }

\* main, lines 435-438, and process_pdf, lines 394-397: the next PDF
ProcessPdfStart ==
    /\ pc = "main"
    /\ file_index < pdf_files
    /\ file_index' = file_index + 1
    /\ pc' = "extract"
    /\ extracted' = None
    /\ transaction_data' = None
    /\ exchange_rates' = None
    /\ warned' = FALSE
    /\ i' = 1
    /\ distributed' = NoDistributed
    /\ lot_values' = <<>>
    /\ csv_data' = <<>>
    /\ purpose' = 0
    /\ date_str' = 0
    /\ operation_type' = "venda"
    /\ date_obj' = 0
    /\ attempts' = 0
    /\ lookups' = <<>>
    /\ bcb_result' = None
    /\ transaction_rate' = None
    /\ acquisition_rates' = <<>>
    /\ attempt_number' = 0
    /\ llm_errors' = <<>>
    /\ UNCHANGED <<api, previous, bastterVars, pdf_files, successful, failed>>

\* extract_transaction_data_from_pdf, lines 285-288 and 377-380: the PDF
\* cannot be read; the handler of line 377 ends the process
ExtractReadFails ==
    /\ pc = "extract"
    /\ pc' = "exited"
    /\ UNCHANGED <<extracted, exchange_rates, csvVars, rateVars, auxVars>>

\* lines 351-358, and llm.py, lines 183 and 47-52: the first attempt
InvokeLlm ==
    /\ pc = "extract"
    /\ attempt_number' = 1
    /\ llm_errors' = <<>>
    /\ pc' = "converse"
    /\ UNCHANGED <<extracted, exchange_rates, csvVars, rateVars, previous, bastterVars, batchVars>>

\* llm.py, lines 98-123 and 47-51: converse raises; the decorator waits and
\* retries what retry_on_exception accepts, and raises anything else
ConverseRaises ==
    /\ pc = "converse"
    /\ \E code \in ErrorCodes :
          /\ llm_errors' = Append(llm_errors, code)
          /\ pc' = IF retry_on_exception(RaisedFor(code))
                   THEN "retry_wait" ELSE "llm_raised"
    /\ UNCHANGED <<extracted, exchange_rates, csvVars, rateVars, previous, bastterVars, batchVars,
                   attempt_number>>

\* llm.py, lines 48-49: after the fixed wait the next attempt, whatever the
\* number of attempts made (the model follows MaxLlmAttempts of them)
RetryAfterWait ==
    /\ pc = "retry_wait"
    /\ attempt_number < MaxLlmAttempts
    /\ attempt_number' = attempt_number + 1
    /\ pc' = "converse"
    /\ UNCHANGED <<extracted, exchange_rates, csvVars, rateVars, previous, bastterVars, batchVars,
                   llm_errors>>

\* extract_transaction_data_from_pdf, lines 377-380: the exception of the
\* extraction call is caught and the process ends with sys.exit(1)
LlmRaised ==
    /\ pc = "llm_raised"
    /\ pc' = "exited"
    /\ UNCHANGED <<extracted, exchange_rates, csvVars, rateVars, auxVars>>

\* lines 361-375: the answer has no JSON or JSON that does not parse;
\* sys.exit(1), which neither line 377 nor line 410 catches
ExtractMalformed ==
    /\ pc = "converse"
    /\ pc' = "exited"
    /\ UNCHANGED <<extracted, exchange_rates, csvVars, rateVars, auxVars>>

\* lines 361-367 and process_pdf, lines 397-403: the record is returned,
\* displayed and handed to get_exchange_rates
ExtractReturn ==
    /\ pc = "converse"
    /\ \E record \in PipelineRecords :
          /\ extracted' = record
          /\ transaction_data' = record
    /\ attempt_number' = 0
    /\ llm_errors' = <<>>
    /\ pc' = "get_exchange_rates"
    /\ UNCHANGED <<exchange_rates, warned, i, distributed, lot_values, csv_data,
                   rateVars, previous, bastterVars, batchVars>>

\* process_pdf, line 406: create_csv is called with the rates
ProcessPdfCreateCsv ==
    /\ pc = "rates_returned"
    /\ pc' = "create_csv"
    /\ UNCHANGED <<extracted, exchange_rates, csvVars, rateVars, auxVars>>

\* process_pdf, line 408, and main, lines 438-439
ProcessPdfReturn ==
    /\ pc = "returned"
    /\ successful' = successful + 1
    /\ pc' = "main"
    /\ UNCHANGED <<extracted, exchange_rates, csvVars, rateVars, previous, bastterVars, llmVars,
                   pdf_files, file_index, failed>>

\* a failed PDF counted in neither counter
ProcessPdfExcept_Uncounted ==
    /\ pc = "raised"
    /\ pc' = "main"
    /\ UNCHANGED <<extracted, exchange_rates, csvVars, rateVars, previous, bastterVars, llmVars,
                   pdf_files, file_index, successful, failed>>

\* process_pdf, lines 410-413, and main, lines 440-442: an Exception of
\* get_exchange_rates or create_csv is caught, the PDF counted as failed
ProcessPdfExcept ==
    /\ pc = "raised"
    /\ failed' = failed + 1
    /\ pc' = "main"
    /\ UNCHANGED <<extracted, exchange_rates, csvVars, rateVars, previous, bastterVars, llmVars,
                   pdf_files, file_index, successful>>

\* main, lines 444-449: the loop is over
MainDone ==
    /\ pc = "main"
    /\ file_index = pdf_files
    /\ pc' = "done"
    /\ UNCHANGED <<extracted, exchange_rates, csvVars, rateVars, auxVars>>

Init ==
    /\ pc = "main"
    /\ pdf_files \in 1..MaxPdfs
    /\ file_index = 0
    /\ successful = 0
    /\ failed = 0
    /\ api \in PipelineApis
    /\ extracted = None
    /\ transaction_data = None
    /\ exchange_rates = None
    /\ previous = <<>>
    /\ CsvIdle
    /\ RatesIdle
    /\ LlmIdle
    /\ BastterIdle

Next ==
    \/ ProcessPdfStart
    \/ ExtractReadFails
    \/ InvokeLlm
    \/ ConverseRaises
    \/ RetryAfterWait
    \/ LlmRaised
    \/ ExtractMalformed
    \/ ExtractReturn
    \/ NextRates
    \/ ProcessPdfCreateCsv
    \/ NextCsv
    \/ ProcessPdfReturn
    \/ ProcessPdfExcept
    \/ MainDone

Spec == Init /\ [][Next]_vars

----------------------------------------------------------------------------
(* convert_to_bastter.py: convert_to_float *)

\* Python values: a str is the sequence of its characters, an int m * 10^k
\* the pair <<m, k>>
PyStr(t) == [type |-> "str", text |-> t, int |-> <<0, 0>>]

PyNone == [type |-> "NoneType", text |-> <<>>, int |-> <<0, 0>>]

PyInt(m, k) == [type |-> "int", text |-> <<>>, int |-> <<m, k>>]

Digits == <<"0", "1", "2", "3", "4", "5", "6", "7", "8", "9">>

IsDigit(c) == \E d \in 1..10 : Digits[d] = c

DigitValue(c) == (CHOOSE d \in 1..10 : Digits[d] = c) - 1

Contains(t, c) == \E k \in 1..Len(t) : t[k] = c

\* str.replace(c, '') for a single character c
RemoveChar(t, c) == SelectSeq(t, LAMBDA ch : ch # c)

\* str.replace(a, b) for single characters
ReplaceChar(t, a, b) == [k \in 1..Len(t) |-> IF t[k] = a THEN b ELSE t[k]]

\* str.replace('R$', ''): the occurrences from the left, not overlapping
RECURSIVE RemoveCurrency(_)
RemoveCurrency(t) ==
    IF Len(t) < 2 THEN t
    ELSE IF t[1] = "R" /\ t[2] = "$" THEN RemoveCurrency(SubSeq(t, 3, Len(t)))
    ELSE <<t[1]>> \o RemoveCurrency(Tail(t))

\* str.strip()
RECURSIVE Strip(_)
Strip(t) ==
    IF t = <<>> THEN t
    ELSE IF t[1] = " " THEN Strip(Tail(t))
    ELSE IF t[Len(t)] = " " THEN Strip(SubSeq(t, 1, Len(t) - 1))
    ELSE t

\* the thousands separator removed whenever the text has a '.' or a ','
HasBothSeparators_Either(t) == Contains(t, ".") \/ Contains(t, ",")

\* line 28: the text has a '.' and a ','
HasBothSeparators(t) == Contains(t, ".") /\ Contains(t, ",")

\* lines 25-30: quotes, 'R$' and surrounding blanks removed, then the
\* separators turned into the dot-decimal form
Clean(t) ==
    LET stripped == Strip(RemoveCurrency(RemoveChar(t, "\"")))
        thousands == IF HasBothSeparators(stripped) THEN RemoveChar(stripped, ".")
                     ELSE stripped
    IN  ReplaceChar(thousands, ",", ".")

RECURSIVE DecimalValue(_)
DecimalValue(ds) ==
    IF ds = <<>> THEN 0
    ELSE 10 * DecimalValue(SubSeq(ds, 1, Len(ds) - 1)) + DigitValue(ds[Len(ds)])

RECURSIVE DecimalLength(_)
DecimalLength(n) == IF n < 10 THEN 1 ELSE 1 + DecimalLength(n \div 10)

Returns(x) == [raised |-> None, value |-> x]

Raises(exception) == [raised |-> exception, value |-> FZero]

\* float(str) for texts of digits, '.', signs and blanks: blanks around the
\* number are skipped, then an optional sign and digits with at most one '.'
\* and at least one digit; the value is the decimal correctly rounded
FloatOfStr(t) ==
    LET body == Strip(t)
        signed == body # <<>> /\ body[1] \in {"-", "+"}
        number == IF signed THEN Tail(body) ELSE body
        digits == RemoveChar(number, ".")
        point == IF Contains(number, ".")
                 THEN CHOOSE k \in 1..Len(number) : number[k] = "."
                 ELSE Len(number) + 1
    IN  IF /\ digits # <<>>
           /\ \A k \in 1..Len(digits) : IsDigit(digits[k])
           /\ Len(number) - Len(digits) <= 1
        THEN Returns(RoundRatio(IF signed /\ body[1] = "-" THEN -1 ELSE 1,
                                DecimalValue(digits), 10^(Len(number) - point +
                                    (IF Contains(number, ".") THEN 0 ELSE 1)), 0))
        ELSE Raises("ValueError")

\* the number of decimal digits above which an int is beyond every float
\* (the largest float is below 1.8 * 10^308)
FloatMaxDigits == 309

\* float(int): the nearest float, OverflowError for an int too large
FloatOfInt(n) ==
    IF n[1] # 0 /\ DecimalLength(AbsI(n[1])) + n[2] > FloatMaxDigits
    THEN Raises("OverflowError")
    ELSE Returns(FFromInt(n[1] * 10^(n[2])))

\* line 32: float(value)
FloatOf(v) ==
    CASE v.type = "str" -> FloatOfStr(v.text)
      [] v.type = "int" -> FloatOfInt(v.int)
      [] OTHER -> Raises("TypeError")

\* a handler for ValueError only
Caught_ValueErrorOnly(exception) == exception = "ValueError"

\* line 33: the exceptions the handler catches
Caught(exception) == exception \in {"ValueError", "TypeError"}

\* lines 21-34
convert_to_float(v) ==
    LET cleaned == IF v.type = "str" THEN PyStr(Clean(v.text)) ELSE v
        outcome == FloatOf(cleaned)
    IN  IF outcome.raised # None /\ Caught(outcome.raised)
        THEN Returns(FZero)
        ELSE outcome

\* the characters of the texts convert_to_float is given
Chars == {"1", ".", ",", " ", "-", "R", "$", "\"", "x"}

Texts == UNION { [1..n -> Chars] : n \in 0..MaxTextLen }

\* amounts as the CSV files and the specification write them
ScenarioTexts ==
    { <<"1", ".", "2", "3", "4", ",", "5", "6">>,
      <<"1", "2", "3", "4", ".", "5", "6">>,
      <<"1", "2", "3", "4", ",", "5", "6">>,
      <<"\"", "R", "$", " ", "1", ".", "2", "3", "4", ",", "5", "6", "\"">>,
      <<"1", ".", "2", "3", "4", ".", "5", "6", "7">>,
      <<"1", ",", "2", "3", "4", ",", "5", "6">> }

\* the arguments: texts, None, ints, and the int 10**400
Values ==
    { PyStr(t) : t \in Texts \cup ScenarioTexts }
        \cup { PyNone, PyInt(0, 0), PyInt(15, 0), PyInt(1, 400) }

\* convert_to_float(value) is called and returns or raises
ConvertToFloat ==
    /\ pc = "convert_to_float"
    /\ LET outcome == convert_to_float(value)
       IN  /\ raised' = outcome.raised
           /\ returned' = IF outcome.raised = None THEN <<outcome.value>> ELSE <<>>
    /\ pc' = "converted"
    /\ UNCHANGED <<extracted, exchange_rates, csvVars, rateVars, previous, batchVars,
                   llmVars, value, lines, line_index, all_data, xlsx>>

InitConvert ==
    /\ pc = "convert_to_float"
    /\ value \in Values
    /\ returned = <<>>
    /\ raised = None
    /\ lines = <<>>
    /\ line_index = 1
    /\ all_data = <<>>
    /\ xlsx = <<>>
    /\ extracted = None
    /\ transaction_data = None
    /\ exchange_rates = None
    /\ api = {}
    /\ previous = <<>>
    /\ pdf_files = 1
    /\ file_index = 1
    /\ successful = 0
    /\ failed = 0
    /\ CsvIdle
    /\ RatesIdle
    /\ LlmIdle

NextConvert == ConvertToFloat

SpecConvert == InitConvert /\ [][NextConvert]_vars

----------------------------------------------------------------------------
(* convert_to_bastter.py: process_csv_to_bastter_format *)

\* int(str) for texts of digits, signs, '.' and blanks
IntOfStr(t) ==
    LET body == Strip(t)
        signed == body # <<>> /\ body[1] \in {"-", "+"}
        digits == IF signed THEN Tail(body) ELSE body
    IN  IF digits # <<>> /\ \A k \in 1..Len(digits) : IsDigit(digits[k])
        THEN Returns((IF signed /\ body[1] = "-" THEN -1 ELSE 1) * DecimalValue(digits))
        ELSE Raises("ValueError")

\* a line of a ticker's section, after the header: whether it has its eight
\* fields and a date, the date, and the fields the rows are made of
Line(complete, date, transaction_type, quantity, total, total_with_taxes) ==
    [complete |-> complete, date |-> date, transaction_type |-> transaction_type,
     quantity |-> quantity, total |-> total, total_with_taxes |-> total_with_taxes]

QuantityTexts == { <<"1", "0">>, <<"-", "5">>, <<"0">>, <<"1", ".", "5">> }

TotalTexts == { <<"1", ".", "2", "3", "4", ",", "5", "6">>, <<"x">> }

TotalWithTaxesText == <<"R", "$", " ", "1", ".", "2", "3", "0", ",", "0", "0">>

\* the sections: up to MaxLines lines, the newest first
Sections ==
    UNION { { [k \in 1..n |->
                 IF kind[k][1] = "short"
                 THEN Line(FALSE, n + 1 - k, "V", <<>>, <<>>, <<>>)
                 ELSE Line(TRUE, n + 1 - k, kind[k][1], kind[k][2], kind[k][3],
                           TotalWithTaxesText)] :
              kind \in [1..n -> ({"C", "V"} \X QuantityTexts \X TotalTexts)
                                    \cup {<<"short", <<>>, <<>>>>}] } :
            n \in 1..MaxLines }

\* lines 101-131: the row of a line; line is the number of the line the row
\* was made of
Row(k, line) ==
    LET parsed == IntOfStr(line.quantity).value
        total_value == convert_to_float(PyStr(line.total)).value
        total_with_taxes_value == convert_to_float(PyStr(line.total_with_taxes)).value
    IN  [Ticker |-> "TICK",
         Data |-> line.date,
         Quantidade |-> IF line.transaction_type = "V" THEN -parsed ELSE parsed,
         Valor |-> total_with_taxes_value,
         Valor2 |-> IF line.transaction_type = "C" THEN FZero ELSE total_value,
         line |-> k]

\* lines 77-134: one line of the section.  A line short of fields or of a
\* date is skipped; a quantity that is no int prints an error and gives no row
ProcessLine ==
    /\ pc = "rows"
    /\ line_index <= Len(lines)
    /\ LET line == lines[line_index]
       IN  all_data' =
              IF line.complete /\ IntOfStr(line.quantity).raised = None
              THEN Append(all_data, Row(line_index, line))
              ELSE all_data
    /\ line_index' = line_index + 1
    /\ pc' = pc
    /\ UNCHANGED <<extracted, exchange_rates, csvVars, rateVars, previous, batchVars,
                   llmVars, value, returned, raised, lines, xlsx>>

\* DataFrame.sort_values(['Ticker', 'Data']) of rows of one ticker
RECURSIVE SortByData(_)
SortByData(rows) ==
    IF rows = <<>> THEN rows
    ELSE LET least == CHOOSE k \in 1..Len(rows) :
                         \A j \in 1..Len(rows) :
                             rows[k].Data < rows[j].Data
                                \/ (rows[k].Data = rows[j].Data /\ k <= j)
         IN  <<rows[least]>>
                \o SortByData([j \in 1..(Len(rows) - 1) |->
                                  IF j < least THEN rows[j] ELSE rows[j + 1]])

\* Series.round(2): the hundredths rounded to an int, divided by 100
Round2(x) == FFromCents(FRound(FMul(x, FFromInt(100))))

\* lines 136-150: the rows sorted, the two amounts rounded, the file written.
\* Without a row the frame has no column 'Ticker' and sort_values raises.
SaveXlsx ==
    /\ pc = "rows"
    /\ line_index > Len(lines)
    /\ IF all_data = <<>>
       THEN /\ pc' = "raised"
            /\ UNCHANGED xlsx
       ELSE /\ pc' = "saved"
            /\ xlsx' = [k \in 1..Len(all_data) |->
                           [SortByData(all_data)[k] EXCEPT
                               !.Valor = Round2(@), !.Valor2 = Round2(@)]]
    /\ UNCHANGED <<extracted, exchange_rates, csvVars, rateVars, previous, batchVars,
                   llmVars, value, returned, raised, lines, line_index, all_data>>

InitBastter ==
    /\ pc = "rows"
    /\ lines \in Sections
    /\ line_index = 1
    /\ all_data = <<>>
    /\ xlsx = <<>>
    /\ value = PyNone
    /\ returned = <<>>
    /\ raised = None
    /\ extracted = None
    /\ transaction_data = None
    /\ exchange_rates = None
    /\ api = {}
    /\ previous = <<>>
    /\ pdf_files = 1
    /\ file_index = 1
    /\ successful = 0
    /\ failed = 0
    /\ CsvIdle
    /\ RatesIdle
    /\ LlmIdle

NextBastter == ProcessLine \/ SaveXlsx

SpecBastter == InitBastter /\ [][NextBastter]_vars

----------------------------------------------------------------------------
(* Properties of create_csv *)

Reconciled == pc \in {"allocate", "returned"}

RawLots == extracted.acquisition_lots

Lots == transaction_data.acquisition_lots

NumLots == Len(Lots)

\* sum(values) of a list of floats, added from the left
RECURSIVE SumFloats(_)
SumFloats(values) ==
    IF values = <<>> THEN FZero
    ELSE FAdd(SumFloats(SubSeq(values, 1, Len(values) - 1)), values[Len(values)])

AggregateNames == {"costs", "proceeds", "net_proceeds", "net_proceeds_brl"}

\* the four aggregates, from the fields of the record
Aggregate(name) ==
    LET costs == FAdd(extracted.commission, extracted.supplemental_fee)
        net == FSub(extracted.total_value, costs)
    IN  CASE name = "costs" -> costs
          [] name = "proceeds" -> extracted.total_value
          [] name = "net_proceeds" -> net
          [] name = "net_proceeds_brl" -> FMul(net, exchange_rates[1])

\* the value a lot was allocated of an aggregate
Allocated(v, name) ==
    CASE name = "costs" -> v.lot_costs
      [] name = "proceeds" -> v.lot_proceeds
      [] name = "net_proceeds" -> v.lot_net_proceeds
      [] name = "net_proceeds_brl" -> v.lot_net_proceeds_brl

AllocatedList(name) == [j \in 1..Len(lot_values) |-> Allocated(lot_values[j], name)]

\* C1: after the reconciliation step the lot quantities add up to the
\* reported quantity, for every record whose raw lot total is not zero,
\* whatever the mismatch was.
C1_SumEqualsQuantity ==
    (pc # "create_csv" /\ SumQuantity(RawLots) # 0)
        => SumQuantity(Lots) = transaction_data.quantity

\* C1 witness: a reconciled record whose raw total was 10 above the quantity,
\* and one whose raw total was below it.
C1_Witness ==
    /\ pc = "returned"
    /\ SumQuantity(RawLots) - extracted.quantity \in {10, -1}
    /\ SumQuantity(Lots) = extracted.quantity

\* C2: for each of the four aggregates and lots of positive quantity, the
\* per-lot allocated values add up (sum(), in floats) to the aggregate.
C2_AllocationsSumToAggregate ==
    (pc = "returned" /\ \A j \in 1..NumLots : Lots[j].quantity > 0)
        => \A name \in AggregateNames :
               SumFloats(AllocatedList(name)) = Aggregate(name)

\* C3: after reconciliation every lot quantity is greater than 0, when the
\* raw lot quantities and the reported quantity are positive.
C3_QuantitiesPositive ==
    (/\ Reconciled
     /\ extracted.quantity > 0
     /\ \A j \in 1..Len(RawLots) : RawLots[j].quantity > 0)
        => \A j \in 1..NumLots : Lots[j].quantity > 0

\* the last lot's quantity once it has taken the difference to the quantity
WithDifference(quantity, rounded) ==
    [j \in 1..Len(rounded) |->
        IF j = Len(rounded)
        THEN rounded[j] + (quantity - SumQuantity([k \in 1..Len(rounded) |->
                                                     [quantity |-> rounded[k]]]))
        ELSE rounded[j]]

QuantitiesOf(lots) == [j \in 1..Len(lots) |-> lots[j].quantity]

Mismatched ==
    /\ Reconciled
    /\ SumQuantity(RawLots) # extracted.quantity

\* C4 as stated: on a mismatch every lot becomes the exact quotient
\* lot.quantity * quantity / total rounded half to even, and the last lot
\* then takes the difference.
C4_ExactQuotientRounded ==
    Mismatched =>
        QuantitiesOf(Lots) =
            WithDifference(extracted.quantity,
                [j \in 1..Len(RawLots) |->
                    DivHalfEven(RawLots[j].quantity * extracted.quantity,
                                SumQuantity(RawLots))])

\* C4 amended: on a mismatch every lot becomes round(lot.quantity * factor),
\* factor the float quantity / total and the product a float, and the last
\* lot then takes the difference; quantity 100 with lots [60, 50] gives
\* [55, 45].
C4_FloatProductRounded ==
    Mismatched =>
        /\ QuantitiesOf(Lots) =
              WithDifference(extracted.quantity,
                  [j \in 1..Len(RawLots) |->
                      FRound(FMul(FFromInt(RawLots[j].quantity),
                                  FDivInt(extracted.quantity, SumQuantity(RawLots))))])
        /\ (extracted.quantity = 100 /\ QuantitiesOf(RawLots) = <<60, 50>>)
              => QuantitiesOf(Lots) = <<55, 45>>

\* C4 witness: the sale of 100 with lots [60, 50], reconciled
C4_Witness ==
    /\ Mismatched
    /\ extracted.quantity = 100
    /\ QuantitiesOf(RawLots) = <<60, 50>>
    /\ QuantitiesOf(Lots) = <<55, 45>>

\* C5: when the raw lot quantities add up to the reported quantity the
\* reconciliation changes nothing and prints no warning; the warning is
\* printed exactly when the sums differ.
C5_NoOpWhenEqual ==
    pc # "create_csv" =>
        /\ warned <=> (SumQuantity(RawLots) # extracted.quantity)
        /\ SumQuantity(RawLots) = extracted.quantity => transaction_data = extracted

\* C5 witness: two or more lots that add up to the quantity, past reconciliation
C5_Witness ==
    /\ Reconciled
    /\ Len(RawLots) >= 2
    /\ SumQuantity(RawLots) = extracted.quantity
    /\ ~warned

\* C6: the lots are allocated in index order; every lot but the last gets
\* aggregate * (lot.quantity / quantity), the last gets the aggregate minus
\* the sum of the earlier allocations.
C6_ProportionalThenRemainder ==
    pc \in {"allocate", "returned"} =>
        /\ Len(lot_values) = (IF transaction_data.quantity = 0 THEN 0 ELSE i - 1)
        /\ Len(csv_data) = Len(lot_values)
        /\ \A j \in 1..Len(lot_values) :
              /\ lot_values[j].quantity = Lots[j].quantity
              /\ \A name \in AggregateNames :
                    Allocated(lot_values[j], name) =
                        IF j = NumLots
                        THEN FSub(Aggregate(name),
                                  SumFloats(SubSeq(AllocatedList(name), 1, j - 1)))
                        ELSE FMul(Aggregate(name),
                                  FDivInt(Lots[j].quantity, extracted.quantity))

\* C6 witness: quantity = N = 3 lots of size 1, all allocated
C6_Witness ==
    /\ pc = "returned"
    /\ NumLots = 3
    /\ extracted.quantity = 3
    /\ \A j \in 1..3 : Lots[j].quantity = 1
    /\ Len(lot_values) = 3

\* C7: a single lot gets each of the four aggregates in full, also when its
\* raw quantity differed from the reported quantity.
C7_SingleLotGetsAll ==
    (pc = "returned" /\ NumLots = 1) =>
        \A name \in AggregateNames : Allocated(lot_values[1], name) = Aggregate(name)

\* C7 witness: a single lot whose raw quantity was not the reported quantity
C7_Witness ==
    /\ pc = "returned"
    /\ NumLots = 1
    /\ RawLots[1].quantity # extracted.quantity
    /\ Len(lot_values) = 1
    /\ lot_values[1].lot_proceeds = extracted.total_value

\* C15: a second run of create_csv on the record the first run reconciled,
\* with the same rates, changes no lot, prints no warning, raises nothing and
\* ends with the same per-lot values and the same rows as the first run.
C15_SecondRunReproduces ==
    previous # <<>> =>
        /\ Lots = previous[1].acquisition_lots
        /\ pc # "raised"
        /\ pc # "create_csv" => ~warned
        /\ pc = "returned" =>
              /\ lot_values = previous[1].lot_values
              /\ csv_data = previous[1].csv_data

\* C15 witness: the second run has returned on a record whose lots the first
\* run had rescaled
C15_Witness ==
    /\ previous # <<>>
    /\ pc = "returned"
    /\ SumQuantity(RawLots) # extracted.quantity
    /\ Len(lot_values) >= 2
    /\ lot_values = previous[1].lot_values

\* a record with the quantities of its lots blanked
WithoutLotQuantities(td) ==
    [td EXCEPT !.acquisition_lots =
        [j \in 1..Len(td.acquisition_lots) |->
            [td.acquisition_lots[j] EXCEPT !.quantity = 0]]]

\* C17: no step of create_csv changes anything of the record but the
\* quantities of its lots (dates, cost bases, number and order of the lots
\* stay), and once the reconciliation is done (the lot loop and the writing
\* of the rows) no step changes the record at all.
C17_OnlyReconcilerChangesQuantity ==
    [][/\ WithoutLotQuantities(transaction_data') = WithoutLotQuantities(transaction_data)
       /\ pc # "create_csv" => transaction_data' = transaction_data]_vars

\* C17 witness: every lot of a record with two or more lots allocated, after
\* a reconciliation that changed a quantity and nothing else
C17_Witness ==
    /\ pc = "returned"
    /\ NumLots >= 2
    /\ Len(lot_values) = NumLots
    /\ QuantitiesOf(Lots) # QuantitiesOf(RawLots)
    /\ WithoutLotQuantities(transaction_data) = WithoutLotQuantities(extracted)

\* the lots' acquisition costs, from the fields of the record
AcquisitionCosts ==
    [j \in 1..NumLots |->
        FMul(FFromInt(Lots[j].quantity), RawLots[j].cost_basis_per_share)]

AcquisitionCostsBrl ==
    [j \in 1..NumLots |-> FMul(AcquisitionCosts[j], exchange_rates[2][j])]

\* C21: for lots of positive quantity the per-lot profits in dollars add up
\* (sum(), in floats) to the net proceeds minus the sum of the lots'
\* quantity * cost_basis_per_share, and the per-lot profits in reais to the
\* net proceeds in reais minus the sum of the lots' acquisition costs in
\* reais.
C21_ProfitsSumToTotalProfit ==
    (pc = "returned" /\ \A j \in 1..NumLots : Lots[j].quantity > 0)
        => /\ SumFloats([j \in 1..Len(lot_values) |-> lot_values[j].lot_profit_usd])
                 = FSub(Aggregate("net_proceeds"), SumFloats(AcquisitionCosts))
           /\ SumFloats([j \in 1..Len(lot_values) |-> lot_values[j].lot_profit_brl])
                 = FSub(Aggregate("net_proceeds_brl"), SumFloats(AcquisitionCostsBrl))

\* C22: for every lot, the last one included, the allocated net proceeds
\* are the lot's allocated proceeds minus the lot's allocated costs (a float
\* subtraction), before the amounts are formatted.
C22_NetIsProceedsMinusCosts ==
    \A j \in 1..Len(lot_values) :
        lot_values[j].lot_net_proceeds =
            FSub(lot_values[j].lot_proceeds, lot_values[j].lot_costs)

\* x <= y for floats
FLe(x, y) == FSub(x, y)[1] <= 0

NegativeShare ==
    \E j \in 1..Len(lot_values) : \E name \in AggregateNames :
        Allocated(lot_values[j], name)[1] < 0

NegativeShareReached ==
    /\ pc = "returned"
    /\ \A j \in 1..NumLots : RawLots[j].quantity > 0
    /\ NegativeShare
    /\ Lots[NumLots].quantity < 0

----------------------------------------------------------------------------
(* Properties of the rate resolver *)

BidRates == { cotacaoCompra(d) : d \in Days }

AskRates == { cotacaoVenda(d) : d \in Days }

\* C8: the side of the quotation depends on the operation only: every lookup
\* for the sale date reads the bid (cotacaoCompra), every lookup for an
\* acquisition date reads the ask (cotacaoVenda), on the first request and
\* in the day-walk alike, so the sale rate is never an ask and a lot's rate
\* never a bid.
C8_SideByOperation ==
    /\ \A k \in 1..Len(lookups) :
          lookups[k].answer = "data" =>
              lookups[k].field = (IF purpose = 0 THEN "cotacaoCompra" ELSE "cotacaoVenda")
    /\ transaction_rate # None => transaction_rate \in BidRates \cup ManualRates
    /\ \A j \in 1..Len(acquisition_rates) :
          acquisition_rates[j] \in AskRates \cup ManualRates

\* C8 witness: the sale rate is the bid of an earlier day (found by the
\* day-walk), and the day-walk for a lot has just read an ask
C8_Witness ==
    /\ transaction_rate \in { cotacaoCompra(d) : d \in 0..(LastDay - 1) }
    /\ purpose >= 1
    /\ pc = "bcb_returned"
    /\ Len(lookups) >= 2
    /\ lookups[Len(lookups)].answer = "data"
    /\ lookups[Len(lookups)].field = "cotacaoVenda"
    /\ bcb_result = cotacaoVenda(lookups[Len(lookups)].date)

\* C9: a resolution makes at most 1 + max_attempts lookups, the k-th for the
\* date k - 1 days before the requested one; it can always go on until it
\* returns, and when no lookup found a quotation it returns None.
C9_BoundedWalk ==
    /\ Len(lookups) <= 1 + max_attempts
    /\ attempts <= max_attempts
    /\ \A k \in 1..Len(lookups) : lookups[k].date = date_str - (k - 1)
    /\ pc \in {"bcb", "previous_day"} =>
          ENABLED (BcbData \/ BcbNoData \/ BcbTransportError
                     \/ PreviousDayLookup \/ PreviousDayExhausted)
    /\ pc = "bcb_returned" =>
          IF \E k \in 1..Len(lookups) : lookups[k].answer = "data"
          THEN /\ lookups[Len(lookups)].answer = "data"
               /\ bcb_result \in BidRates \cup AskRates
          ELSE bcb_result = None

\* C9 witness: the requested date and the five days before it had no
\* quotation, and None was returned after six lookups
C9_Witness ==
    /\ pc = "bcb_returned"
    /\ Len(lookups) = 1 + max_attempts
    /\ \A k \in 1..Len(lookups) : lookups[k].answer = "nodata"
    /\ lookups[Len(lookups)].date = date_str - max_attempts
    /\ bcb_result = None

\* C10: a transport failure on any lookup, the first or one of the day-walk,
\* ends the resolution: no lookup follows a failed one.
C10_TransportFailureAborts ==
    \A k \in 1..(Len(lookups) - 1) : lookups[k].answer # "transport"

\* the earlier dates, at most max_attempts days back, that have a quotation
EarlierWithData == { d \in api : d < date_str /\ d >= date_str - max_attempts }

NearestEarlier == CHOOSE d \in EarlierWithData : \A e \in EarlierWithData : e <= d

\* C11: when the requested date has no quotation and a date at most
\* max_attempts days earlier has one, the resolution returns the quotation of
\* the nearest such date, never an older date's and never None.
C11_NearestEarlierDate ==
    (pc = "bcb_returned" /\ date_str \notin api /\ EarlierWithData # {})
        => /\ bcb_result # None
           /\ bcb_result =
                 Quotation(IF purpose = 0 THEN "cotacaoCompra" ELSE "cotacaoVenda",
                           NearestEarlier)

----------------------------------------------------------------------------
(* Properties of process_pdf and main *)

\* the asks a resolution for the given date can return: the date's own or
\* that of one of the max_attempts days before it
AsksFor(date) ==
    { cotacaoVenda(d) : d \in { e \in api : e <= date /\ e >= date - max_attempts } }

\* C12: in a record that went through get_exchange_rates and then create_csv,
\* the rate of the j-th lot is the j-th rate get_exchange_rates collected, an
\* ask resolved for that lot's acquisition date (or typed by the user when
\* none was found), and the lot's acquisition cost in reais is the float
\* product of quantity * cost_basis_per_share and that rate.
C12_OwnAcquisitionRate ==
    pc \in {"allocate", "returned"} =>
        \A j \in 1..Len(lot_values) :
            /\ Len(acquisition_rates) = NumLots
            /\ lot_values[j].acquisition_rate = acquisition_rates[j]
            /\ acquisition_rates[j] \in
                  AsksFor(RawLots[j].acquisition_date) \cup ManualRates
            /\ lot_values[j].acquisition_cost_total =
                  FMul(FFromInt(Lots[j].quantity), RawLots[j].cost_basis_per_share)
            /\ lot_values[j].acquisition_cost_brl =
                  FMul(FMul(FFromInt(Lots[j].quantity), RawLots[j].cost_basis_per_share),
                       acquisition_rates[j])

\* C12 witness: three lots whose three rates differ from each other and from
\* the sale's rate, all allocated
C12_Witness ==
    /\ pc = "returned"
    /\ Len(lot_values) = 3
    /\ Cardinality({ lot_values[j].acquisition_rate : j \in 1..3 }
                     \cup {exchange_rates[1]}) = 4
    /\ \A j \in 1..3 :
          lot_values[j].acquisition_rate = cotacaoVenda(RawLots[j].acquisition_date)

\* C13: a failure while one PDF is processed, a failed extraction included,
\* fails that PDF only: when the program has ended every PDF of the list was
\* attempted and counted, as successful or as failed.
C13_FailureFailsOnlyThatRecord ==
    pc \in {"done", "exited"} =>
        /\ file_index = pdf_files
        /\ successful + failed = pdf_files

Transient == {"ThrottlingException", "ModelTimeoutException"}

LotsReconciled ==
    SumQuantity(RawLots) # 0 => SumQuantity(Lots) = transaction_data.quantity

RatesResolved ==
    /\ exchange_rates # None
    /\ exchange_rates[1] # None
    /\ Len(exchange_rates[2]) = NumLots

\* C16 as stated: reconciliation, then rate resolution, then allocation with
\* profit, then the rows: a rate lookup is made only once the lots are
\* reconciled, an allocation only once they are reconciled and the rates
\* resolved.
C16_ReconcileThenRates ==
    /\ lookups # <<>> => LotsReconciled
    /\ lot_values # <<>> => (LotsReconciled /\ RatesResolved)

\* C16 amended: rate resolution comes first, on the record as extracted,
\* then reconciliation, then for each lot its allocation, its profit and its
\* row: until get_exchange_rates has returned the lots are untouched, and an
\* allocation is computed only once the rates are resolved and the lots
\* reconciled; every allocated lot has its profit and its row.
C16_RatesThenReconcile ==
    /\ exchange_rates = None => transaction_data = extracted
    /\ lot_values # <<>> => (LotsReconciled /\ RatesResolved)
    /\ Len(csv_data) = Len(lot_values)
    /\ \A j \in 1..Len(lot_values) :
          /\ lot_values[j].lot_profit_usd =
                FSub(lot_values[j].lot_net_proceeds, lot_values[j].acquisition_cost_total)
          /\ csv_data[j].LucroDolar = FormatCents(lot_values[j].lot_profit_usd)

\* C16 witness: a sale of 3 with lots [2, 2]: the rates were looked up while
\* the lots still added up to 4, then the lots were reconciled and allocated
C16_Witness ==
    /\ pc = "returned"
    /\ extracted.quantity = 3
    /\ QuantitiesOf(RawLots) = <<2, 2>>
    /\ lookups # <<>>
    /\ SumQuantity(Lots) = 3
    /\ RatesResolved
    /\ Len(lot_values) = 2

\* C24: the driver takes the PDF files one at a time in list order (the
\* index moves by one, and only once the file before it has been counted),
\* every file that is processed raises exactly one of the two counters by
\* one, and whenever the loop finishes successful + failed is the number of
\* PDF files, all of them processed.
C24_EachFileCountedOnce ==
    [][/\ file_index' \in {file_index, file_index + 1}
       /\ file_index' = file_index + 1
            => /\ pc = "main"
               /\ successful + failed = file_index
               /\ successful' = successful /\ failed' = failed
       /\ <<successful', failed'>> \in {<<successful, failed>>,
                                        <<successful + 1, failed>>,
                                        <<successful, failed + 1>>}
       /\ pc' = "main" => successful' + failed' = file_index'
       /\ pc' = "done" => /\ file_index' = pdf_files
                          /\ successful' + failed' = pdf_files]_vars

\* the loop finished over several PDFs, one counted as processed and one as
\* failed
C24_Witness ==
    /\ pc = "done"
    /\ pdf_files > 1
    /\ successful > 0
    /\ failed > 0

----------------------------------------------------------------------------
(* Properties of convert_to_float *)

\* the argument's text once quotes, 'R$' and the blanks around are removed
Bare == Strip(RemoveCurrency(RemoveChar(value.text, "\"")))

\* what float() makes of a text, 0.0 when it makes nothing of it
FloatOrZero(t) ==
    IF FloatOfStr(t).raised = None THEN <<FloatOfStr(t).value>> ELSE <<FZero>>

\* C18 as stated: convert_to_float raises for no argument, a text or not; it
\* returns a float, and 0.0 when the cleaned text is not a number.
C18_NeverRaises ==
    pc = "converted" =>
        /\ raised = None
        /\ Len(returned) = 1
        /\ (value.type = "str" /\ FloatOfStr(Clean(value.text)).raised # None)
              => returned = <<FZero>>

\* C18 amended: convert_to_float raises for no text and not for None; it
\* returns a float, 0.0 for None and for a text that is not a number once
\* cleaned (any text that keeps a letter or a '$'); float()'s OverflowError
\* for an int too large is not caught.
C18_NeverRaisesOnText ==
    pc = "converted" =>
        /\ value.type \in {"str", "NoneType"} => (raised = None /\ Len(returned) = 1)
        /\ value.type = "NoneType" => returned = <<FZero>>
        /\ (value.type = "str" /\ FloatOfStr(Clean(value.text)).raised # None)
              => returned = <<FZero>>
        /\ (value.type = "str" /\ \E c \in {"x", "R", "$"} : Contains(Bare, c))
              => returned = <<FZero>>
        /\ value.type = "int" =>
              \/ raised = None /\ returned = <<FFromInt(value.int[1])>>
              \/ raised = "OverflowError" /\ returned = <<>> /\ value.int[2] > 0

\* C18 witness: the text 'R$ x' was converted to 0.0
C18_Witness ==
    /\ pc = "converted"
    /\ value = PyStr(<<"R", "$", " ", "x">>)
    /\ raised = None
    /\ returned = <<FZero>>

\* C19: a text with '.' and ',' is read with every '.' dropped and ',' as
\* the decimal point ("1.234,56" gives 1234.56), a text with ',' only with
\* ',' as the decimal point, a text with '.' only as it stands ("1234.56"
\* gives 1234.56); what is then not a number gives 0.0.
C19_SeparatorRule ==
    (pc = "converted" /\ value.type = "str") =>
        /\ raised = None
        /\ (Contains(Bare, ".") /\ Contains(Bare, ","))
              => returned = FloatOrZero(ReplaceChar(RemoveChar(Bare, "."), ",", "."))
        /\ (~Contains(Bare, ".") /\ Contains(Bare, ","))
              => returned = FloatOrZero(ReplaceChar(Bare, ",", "."))
        /\ ~Contains(Bare, ",") => returned = FloatOrZero(Bare)
        /\ value.text = <<"1", ".", "2", "3", "4", ",", "5", "6">>
              => returned = <<FFromCents(123456)>>
        /\ value.text = <<"1", "2", "3", "4", ".", "5", "6">>
              => returned = <<FFromCents(123456)>>
        /\ value.text = <<"1", "2", "3", "4", ",", "5", "6">>
              => returned = <<FFromCents(123456)>>

\* C19 witness: "1.234,56" converted to 1234.56
C19_Witness ==
    /\ pc = "converted"
    /\ value = PyStr(<<"1", ".", "2", "3", "4", ",", "5", "6">>)
    /\ returned = <<FFromCents(123456)>>
    /\ returned # <<FFromCents(123400)>>

----------------------------------------------------------------------------
(* Properties of process_csv_to_bastter_format *)

\* C20: every row collected and every row written has a quantity above zero
\* when its line is a buy ('C') and below zero when it is a sell ('V'), for
\* every line that gave a row; its fifth column is 0.00 for a buy and the
\* line's total for a sell.
C20_SignConvention ==
    /\ \A k \in 1..Len(all_data) :
          LET row == all_data[k]
              line == lines[row.line]
          IN  /\ line.transaction_type = "C" =>
                    (row.Quantidade > 0 /\ row.Valor2 = FZero)
              /\ line.transaction_type = "V" =>
                    (row.Quantidade < 0 /\ <<row.Valor2>> = FloatOrZero(Clean(line.total)))
    /\ \A k \in 1..Len(xlsx) :
          LET row == xlsx[k]
              line == lines[row.line]
          IN  /\ line.transaction_type = "C" => (row.Quantidade > 0 /\ row.Valor2 = FZero)
              /\ line.transaction_type = "V" => row.Quantidade < 0

====
